---- MODULE Spec2Model ----
(***************************************************************************)
(* MicroX: the event reducer (appReducer) and the session lifecycle of     *)
(* the App component (connect / disconnect / startStreaming /              *)
(* stopStreaming and the callbacks of the live session).                   *)
(***************************************************************************)
EXTENDS Integers, Sequences, FiniteSets, TLC

(***************************************************************************)
(* Bounds of the model.                                                    *)
(***************************************************************************)
\* ADD_FRAME events applied in a run of the reducer
MaxAdds == 62
\* connect() attempts that get past the API-key check in a run of the App
MaxAttempts == 1
\* connect() attempts in a run of the App that follows sessions one after
\* another
MaxReconnects == 2
\* report_analysis tool calls handled in a run of the App
MaxToolCalls == 1
\* report_analysis calls delivered to a session in a run of messages
MaxCalls == 3
\* function calls in one toolCall message
MaxCallsPerMessage == 2
\* fields of one payload that are absent or hold a falsy value
MaxOddFields == 2

(***************************************************************************)
(* Program constants.                                                      *)
(***************************************************************************)
\* [action.payload, ...state.frames].slice(0, 50)
HistoryCap == 50
\* [...state.timelineData, point].slice(-60)
TimelineCap == 60

(***************************************************************************)
(* JavaScript values.  A value carries its type, so that `x || d` and      *)
(* `=== null` are decided as the language decides them.                    *)
(***************************************************************************)
Undefined == [t |-> "undefined"]
Null == [t |-> "null"]
Str(s) == [t |-> "string", v |-> s]
Num(n) == [t |-> "number", v |-> n]
Bool(b) == [t |-> "boolean", v |-> b]
Arr(q) == [t |-> "array", v |-> q]

Min(a, b) == IF a <= b THEN a ELSE b
Max(a, b) == IF a >= b THEN a ELSE b

\* Array.prototype.slice(0, n)
SliceFirst(q, n) == SubSeq(q, 1, Min(n, Len(q)))
\* Array.prototype.slice(-n)
SliceLast(q, n) == SubSeq(q, Max(1, Len(q) - n + 1), Len(q))

\* Date.prototype.toISOString: millisecond resolution
toISOString(now) == Str(<<"iso", now>>)
\* Date.prototype.toLocaleTimeString: second resolution (two clock readings
\* of one second give the same label)
toLocaleTimeString(now) == Str(<<"hms", now \div 2>>)

(***************************************************************************)
(* ConnectionState (types.ts) and the reducer.                             *)
(***************************************************************************)
DISCONNECTED == "disconnected"
CONNECTING == "connecting"
CONNECTED == "connected"
ERROR == "error"
ConnectionState == {DISCONNECTED, CONNECTING, CONNECTED, ERROR}

initialState ==
  [connectionState |-> DISCONNECTED,
   frames |-> <<>>,
   currentFrame |-> Null,
   timelineData |-> <<>>,
   isMicOn |-> TRUE]

\* a point that charts the confidence of the frame
TimelinePointOfConfidence(frame, now) ==
  [time |-> toLocaleTimeString(now),
   intensity |-> frame.confidence,
   emotion |-> frame.dominant_emotion]

\* EmotionDataPoint built by ADD_FRAME
TimelinePoint(frame, now) ==
  [time |-> toLocaleTimeString(now),
   intensity |-> frame.baseline_deviation,
   emotion |-> frame.dominant_emotion]

\* ADD_FRAME with the history cut by slice(-50): once full, the frame just
\* added is the one dropped
AddFrameDropsNewest(s, frame, now) ==
  [s EXCEPT
     !.frames = SliceLast(<<frame>> \o s.frames, HistoryCap),
     !.currentFrame = frame,
     !.timelineData = SliceLast(Append(s.timelineData, TimelinePoint(frame, now)), TimelineCap)]

\* case 'ADD_FRAME'
AddFrame(s, frame, now) ==
  [s EXCEPT
     !.frames = SliceFirst(<<frame>> \o s.frames, HistoryCap),
     !.currentFrame = frame,
     !.timelineData = SliceLast(Append(s.timelineData, TimelinePoint(frame, now)), TimelineCap)]

\* a SET_CONNECTION that drops the current frame when the session ends
SetConnectionDropsCurrent(s, c) ==
  IF c = CONNECTED
    THEN [s EXCEPT !.connectionState = c]
    ELSE [s EXCEPT !.connectionState = c, !.currentFrame = Null]

\* case 'SET_CONNECTION'
SetConnection(s, c) == [s EXCEPT !.connectionState = c]

\* a TOGGLE_MIC that only ever mutes
ToggleMicMutes(s) == [s EXCEPT !.isMicOn = FALSE]

\* case 'TOGGLE_MIC'
ToggleMic(s) == [s EXCEPT !.isMicOn = ~s.isMicOn]

\* a RESET that keeps the mic flag
ResetKeepsMic(s) == [initialState EXCEPT !.isMicOn = s.isMicOn]

\* case 'RESET'
Reset(s) == initialState

\* appReducer(state, action); `now` is what new Date() reads
appReducer(s, action, now) ==
  CASE action.type = "SET_CONNECTION" -> SetConnection(s, action.payload)
    [] action.type = "ADD_FRAME" -> AddFrame(s, action.payload, now)
    [] action.type = "TOGGLE_MIC" -> ToggleMic(s)
    [] action.type = "RESET" -> Reset(s)
    [] OTHER -> s

(***************************************************************************)
(* State.                                                                  *)
(***************************************************************************)
VARIABLES
  state,      \* the AppState held by useReducer
  added,      \* history: the payloads of the ADD_FRAME events since the initial state
  stream,     \* which input stream drives the reducer run
  lastOp,     \* history: the operation that ran last and what it sent
  apiKey,     \* process.env.API_KEY is set
  mounted,    \* the App component is mounted
  rendered,   \* connectionState and isMicOn of the last committed render
  refs,       \* the useRef cells of App
  att,        \* per connect() attempt: its position and the objects it created
  hist        \* history: what the lifecycle claims speak about

vars == <<state, added, stream, lastOp, apiKey, mounted, rendered, refs, att, hist>>
appVars == <<apiKey, mounted, rendered, refs, att, hist>>

\* the clock reading of the k-th event
Clock(k) == k

(***************************************************************************)
(* The App component: refs, attempts, render snapshot.                     *)
(***************************************************************************)
Attempts == 1..Max(MaxAttempts, MaxReconnects)

\* what the committed render shows and hands to its event handlers
View(s) == [connectionState |-> s.connectionState, isMicOn |-> s.isMicOn]

\* useRef(null) cells; 0 is null, a > 0 names the object attempt a created
initialRefs ==
  [streamRef |-> 0,
   audioContextRef |-> 0,
   processorRef |-> 0,
   sourceRef |-> 0,
   frameIntervalRef |-> 0,
   sessionRef |-> 0,
   processingRef |-> FALSE]

\* one connect() call: where it is suspended, the render state its closures
\* captured, and the browser / SDK objects it created
\*   pc            where connect() is: idle (not called), suspended at
\*                 getUserMedia / play / connect (sessionPromise), or ended
\*   ss            where startStreaming is: idle, suspended at resume, or ended
\*   isMicOn       state.isMicOn as the closures of the call see it
\*   tracks        the media tracks of its stream are live
\*   audioContext  none (not created, or closed), suspended or running
\*   processor     its ScriptProcessorNode is connected to the destination
\*   source        its MediaStreamAudioSourceNode is connected
\*   timer         its setInterval timer is active
\*   session       none (not requested, or closed), opening, open, or errored
\*                 (its error event was delivered, its close event is due)
\*   tick          the ticks of its timer suspended at `await sendRealtimeInput`
initialAttempt ==
  [pc |-> "idle",
   ss |-> "idle",
   isMicOn |-> TRUE,
   tracks |-> FALSE,
   audioContext |-> "none",
   processor |-> FALSE,
   source |-> FALSE,
   timer |-> FALSE,
   session |-> "none",
   tick |-> 0]

\*   afterDisconnect  disconnect() has returned and connect() was not called since
\*   cancelled        the attempts that were in flight when disconnect() or the
\*                    unmount cleanup ran
\*   calls            the report_analysis function calls received, in order
\*   acks             the tool responses sent, in order
initialHist ==
  [afterDisconnect |-> FALSE,
   cancelled |-> {},
   calls |-> <<>>,
   acks |-> <<>>]

(***************************************************************************)
(* Reducer runs: events drawn from bounded input streams.                  *)
(***************************************************************************)
Streams == 1..3
Emotions == <<"Happy", "Sad", "Neutral">>

\* baseline_deviation of the k-th frame of stream s: 1, 2, 3, ... ; a
\* permutation of 0..100; a stream with repeated values
DeviationAt(s, k) ==
  CASE s = 1 -> k % 101
    [] s = 2 -> (37 * k) % 101
    [] OTHER -> k % 3

\* the k-th AnalysisFrame of stream s
FrameAt(s, k) ==
  [timestamp |-> toISOString(Clock(k)),
   dominant_emotion |-> Str(Emotions[((s * k) % 3) + 1]),
   confidence |-> Num((k * 7) % 101),
   micro_expression |-> IF k % 2 = 0 THEN Null ELSE Str("Smirk"),
   active_aus |-> Arr(IF k % 3 = 0 THEN <<>> ELSE <<Str("AU12")>>),
   incongruence |-> Bool(k % 4 = 0),
   baseline_deviation |-> Num(DeviationAt(s, k)),
   analysis_summary |-> Str("ok")]

InitReducer ==
  /\ state = initialState
  /\ added = <<>>
  /\ stream \in Streams
  /\ lastOp = [op |-> "init", a |-> 0, sent |-> <<>>, threw |-> FALSE]
  /\ apiKey = TRUE
  /\ mounted = TRUE
  /\ rendered = View(initialState)
  /\ refs = initialRefs
  /\ att = [a \in Attempts |-> initialAttempt]
  /\ hist = initialHist

RSetConnection ==
  \E c \in ConnectionState :
    /\ state' = appReducer(state, [type |-> "SET_CONNECTION", payload |-> c], Clock(Len(added)))
    /\ lastOp' = [op |-> "SET_CONNECTION", a |-> 0, sent |-> <<>>]
    /\ UNCHANGED <<added, stream, appVars>>

RAddFrame ==
  /\ Len(added) < MaxAdds
  /\ LET frame == FrameAt(stream, Len(added) + 1) IN
       /\ state' = appReducer(state, [type |-> "ADD_FRAME", payload |-> frame], Clock(Len(added) + 1))
       /\ added' = Append(added, frame)
  /\ lastOp' = [op |-> "ADD_FRAME", a |-> 0, sent |-> <<>>]
  /\ UNCHANGED <<stream, appVars>>

RToggleMic ==
  /\ state' = appReducer(state, [type |-> "TOGGLE_MIC"], Clock(Len(added)))
  /\ lastOp' = [op |-> "TOGGLE_MIC", a |-> 0, sent |-> <<>>]
  /\ UNCHANGED <<added, stream, appVars>>

RReset ==
  /\ state' = appReducer(state, [type |-> "RESET"], Clock(Len(added)))
  /\ added' = <<>>
  /\ lastOp' = [op |-> "RESET", a |-> 0, sent |-> <<>>,
                from |-> [frames |-> Len(state.frames),
                          connectionState |-> state.connectionState,
                          isMicOn |-> state.isMicOn]]
  /\ UNCHANGED <<stream, appVars>>

NextReducer ==
  \/ RSetConnection
  \/ RAddFrame
  \/ RToggleMic
  \/ RReset

SpecReducer == InitReducer /\ [][NextReducer]_vars

(***************************************************************************)
(* Lifecycle helpers.  A world w = [refs, att] is threaded through the     *)
(* statements of a handler in program order.                               *)
(***************************************************************************)
\* `threw` is set by a statement that throws; the statements after it in the
\* same handler are not run
World(r, o) == [refs |-> r, att |-> o, threw |-> FALSE]

SetRef(w, name, val) == [w EXCEPT !.refs[name] = val]
SetObj(w, a, field, val) == [w EXCEPT !.att[a][field] = val]

\* dispatch(action)
Dispatch(s, action, now) == appReducer(s, action, now)

\* a message handed to the session of attempt a
Msg(kind, a) == [kind |-> kind, session |-> a]

\* a teardown that leaves the frame timer running
ClearFrameIntervalSkipped(w) == w

\* if (frameIntervalRef.current) clearInterval(frameIntervalRef.current);
\* the ref keeps the id
ClearFrameInterval(w) ==
  IF ~w.threw /\ w.refs.frameIntervalRef # 0
    THEN SetObj(w, w.refs.frameIntervalRef, "timer", FALSE)
    ELSE w

\* if (processorRef.current) { processorRef.current.disconnect(); processorRef.current = null; }
ReleaseProcessor(w) ==
  IF ~w.threw /\ w.refs.processorRef # 0
    THEN SetRef(SetObj(w, w.refs.processorRef, "processor", FALSE), "processorRef", 0)
    ELSE w

\* if (sourceRef.current) { sourceRef.current.disconnect(); sourceRef.current = null; }
ReleaseSource(w) ==
  IF ~w.threw /\ w.refs.sourceRef # 0
    THEN SetRef(SetObj(w, w.refs.sourceRef, "source", FALSE), "sourceRef", 0)
    ELSE w

\* the context handle is dropped but the context is not closed
ReleaseAudioContextUnclosed(w) ==
  IF ~w.threw /\ w.refs.audioContextRef # 0 THEN SetRef(w, "audioContextRef", 0) ELSE w

\* if (audioContextRef.current) { audioContextRef.current.close(); audioContextRef.current = null; }
ReleaseAudioContext(w) ==
  IF ~w.threw /\ w.refs.audioContextRef # 0
    THEN SetRef(SetObj(w, w.refs.audioContextRef, "audioContext", "none"), "audioContextRef", 0)
    ELSE w

\* the tracks are stopped without the null check: with no stream,
\* null.getTracks() throws
ReleaseStreamUnguarded(w) ==
  IF w.threw THEN w
  ELSE IF w.refs.streamRef # 0
    THEN SetRef(SetObj(w, w.refs.streamRef, "tracks", FALSE), "streamRef", 0)
    ELSE [w EXCEPT !.threw = TRUE]

\* if (streamRef.current) { getTracks().forEach(track => track.stop()); streamRef.current = null; }
ReleaseStream(w) ==
  IF ~w.threw /\ w.refs.streamRef # 0
    THEN SetRef(SetObj(w, w.refs.streamRef, "tracks", FALSE), "streamRef", 0)
    ELSE w

\* sessionRef.current = null; the session itself is not closed
ReleaseSession(w) == IF w.threw THEN w ELSE SetRef(w, "sessionRef", 0)

\* stopStreaming()
stopStreaming(w) ==
  ReleaseSession(ReleaseStream(ReleaseAudioContext(ReleaseSource(ReleaseProcessor(
    ClearFrameInterval(w))))))

\* frameIntervalRef.current = window.setInterval(..., 500): the timer of
\* attempt a starts and its id overwrites the ref
StartFrameInterval(w, a) ==
  SetObj(SetObj(SetRef(w, "frameIntervalRef", a), a, "timer", TRUE), a, "ss", "ended")

\* startStreaming from createMediaStreamSource on: with streamRef.current
\* null createMediaStreamSource throws and the rest is not run
StartAudioGraph(w, a) ==
  IF w.refs.streamRef = 0
    THEN SetObj(w, a, "ss", "ended")
    ELSE StartFrameInterval(
           SetObj(SetRef(SetObj(SetRef(w, "sourceRef", a), a, "source", TRUE),
                         "processorRef", a), a, "processor", TRUE),
           a)

\* startStreaming(session) up to its first suspension: `suspended` is what
\* audioContext.state reads after construction
startStreaming(w, a, suspended) ==
  IF w.refs.streamRef # 0
    THEN LET w1 == SetRef(SetObj(w, a, "audioContext", IF suspended THEN "suspended" ELSE "running"),
                          "audioContextRef", a)
         IN IF suspended THEN SetObj(w1, a, "ss", "resume") ELSE StartAudioGraph(w1, a)
    ELSE StartFrameInterval(w, a)

\* a connect() attempt, or its startStreaming, is suspended at an await
InFlight(o, a) == o[a].pc \in {"getUserMedia", "play", "connect"} \/ o[a].ss = "resume"

\* the attempts a teardown by disconnect() or unmount interrupts
Interrupted(o) == {a \in Attempts : InFlight(o, a)}

\* lastOp: the handler that ran, the attempt it belongs to, the messages it
\* handed to a session, and whether it threw; disconnect() adds calledIn,
\* the connectionState it was called in
Op(name, a, sent) == [op |-> name, a |-> a, sent |-> sent, threw |-> FALSE]
OpOf(name, a, sent, w) == [op |-> name, a |-> a, sent |-> sent, threw |-> w.threw]

(***************************************************************************)
(* The App.                                                                *)
(***************************************************************************)
Init ==
  /\ state = initialState
  /\ added = <<>>
  /\ stream = 1
  /\ lastOp = Op("init", 0, <<>>)
  /\ apiKey \in BOOLEAN
  /\ mounted = TRUE
  /\ rendered = View(initialState)
  /\ refs = initialRefs
  /\ att = [a \in Attempts |-> initialAttempt]
  /\ hist = initialHist

\* React commits a render of the state updates dispatched outside its own
\* event handlers
Render ==
  /\ mounted
  /\ rendered # View(state)
  /\ rendered' = View(state)
  /\ lastOp' = Op("render", 0, <<>>)
  /\ UNCHANGED <<state, added, stream, apiKey, mounted, refs, att, hist>>

\* the attempt the next connect() call runs as
NextAttempt == Cardinality({a \in Attempts : att[a].pc # "idle"}) + 1

\* the INITIATE PROTOCOL button is shown and enabled
ConnectEnabled ==
  /\ mounted
  /\ rendered.connectionState # CONNECTED
  /\ rendered.connectionState # CONNECTING

\* the API-key check never fails
ApiKeyNeverMissing == FALSE

\* if (!apiKey)
ApiKeyMissing == ~apiKey

\* connect() up to `await getUserMedia`, in a run of at most `limit` calls
\* that get past the API-key check; the closures of the call see the state
\* of the render whose button was clicked
Connect(limit) ==
  /\ ConnectEnabled
  /\ IF ApiKeyMissing
       THEN /\ lastOp' = Op("connect_no_key", 0, <<>>)
            /\ hist' = [hist EXCEPT !.afterDisconnect = FALSE]
            /\ UNCHANGED <<state, rendered, att>>
       ELSE /\ NextAttempt <= limit
            /\ state' = Dispatch(state, [type |-> "SET_CONNECTION", payload |-> CONNECTING], Clock(Len(added)))
            /\ rendered' = View(state')
            /\ att' = [att EXCEPT ![NextAttempt].pc = "getUserMedia",
                                  ![NextAttempt].isMicOn = rendered.isMicOn]
            /\ hist' = [hist EXCEPT !.afterDisconnect = FALSE]
            /\ lastOp' = Op("connect", NextAttempt, <<>>)
  /\ UNCHANGED <<added, stream, apiKey, mounted, refs>>

connect == Connect(MaxAttempts)

\* a catch block that tears down but reports nothing
ConnectCatchNoDispatch(a, name) ==
  LET w == stopStreaming(SetObj(World(refs, att), a, "pc", "ended")) IN
    /\ refs' = w.refs
    /\ att' = w.att
    /\ lastOp' = OpOf(name, a, <<>>, w)
    /\ UNCHANGED <<state, added, stream, apiKey, mounted, rendered, hist>>

\* catch (error) { dispatch ERROR; stopStreaming(); } of attempt a
ConnectCatch(a, name) ==
  LET w == stopStreaming(SetObj(World(refs, att), a, "pc", "ended")) IN
    /\ state' = Dispatch(state, [type |-> "SET_CONNECTION", payload |-> ERROR], Clock(Len(added)))
    /\ refs' = w.refs
    /\ att' = w.att
    /\ lastOp' = OpOf(name, a, <<>>, w)
    /\ UNCHANGED <<added, stream, apiKey, mounted, rendered, hist>>

\* client.live.connect(...) is called: the session of attempt a is opening
\* and connect() waits for sessionPromise
LiveConnect(w, a) == SetObj(SetObj(w, a, "session", "opening"), a, "pc", "connect")

\* getUserMedia resolves: streamRef.current = stream, then video.play()
\* when the video element is there
GetUserMediaResolved ==
  \E a \in Attempts :
    /\ att[a].pc = "getUserMedia"
    /\ LET w1 == SetRef(SetObj(World(refs, att), a, "tracks", TRUE), "streamRef", a)
           w2 == IF mounted THEN SetObj(w1, a, "pc", "play") ELSE LiveConnect(w1, a)
       IN /\ refs' = w2.refs
          /\ att' = w2.att
    /\ lastOp' = Op("getUserMedia_resolved", a, <<>>)
    /\ UNCHANGED <<state, added, stream, apiKey, mounted, rendered, hist>>

\* getUserMedia rejects (permission denied, no device)
GetUserMediaRejected ==
  \E a \in Attempts :
    /\ att[a].pc = "getUserMedia"
    /\ ConnectCatch(a, "getUserMedia_rejected")

\* video.play() resolves: the session is requested
PlayResolved ==
  \E a \in Attempts :
    /\ att[a].pc = "play"
    /\ LET w == LiveConnect(World(refs, att), a) IN
         /\ refs' = w.refs
         /\ att' = w.att
    /\ lastOp' = Op("play_resolved", a, <<>>)
    /\ UNCHANGED <<state, added, stream, apiKey, mounted, rendered, hist>>

\* video.play() rejects
PlayRejected ==
  \E a \in Attempts :
    /\ att[a].pc = "play"
    /\ ConnectCatch(a, "play_rejected")

\* sessionPromise rejects
SessionRejected ==
  \E a \in Attempts :
    /\ att[a].pc = "connect"
    /\ att[a].session = "opening"
    /\ LET w == stopStreaming(SetObj(SetObj(World(refs, att), a, "pc", "ended"), a, "session", "none")) IN
         /\ refs' = w.refs
         /\ att' = w.att
         /\ lastOp' = OpOf("session_rejected", a, <<>>, w)
    /\ state' = Dispatch(state, [type |-> "SET_CONNECTION", payload |-> ERROR], Clock(Len(added)))
    /\ UNCHANGED <<added, stream, apiKey, mounted, rendered, hist>>

\* The socket opens.  onopen dispatches CONNECTED and registers its
\* sessionPromise.then; the promise then resolves within the same turn of the
\* event loop: connect() resumes (sessionRef.current = session) and the
\* then-callback runs startStreaming(s) to its first await and sends the
\* kickoff text.
onopen ==
  \E a \in Attempts, suspended \in BOOLEAN :
    /\ att[a].session = "opening"
    /\ state' = Dispatch(state, [type |-> "SET_CONNECTION", payload |-> CONNECTED], Clock(Len(added)))
    /\ LET w1 == SetRef(SetObj(SetObj(World(refs, att), a, "session", "open"), a, "pc", "ended"),
                        "sessionRef", a)
           w2 == startStreaming(w1, a, suspended)
       IN /\ refs' = w2.refs
          /\ att' = w2.att
    /\ lastOp' = Op("onopen", a, <<Msg("kickoff", a)>>)
    /\ UNCHANGED <<added, stream, apiKey, mounted, rendered, hist>>

\* audioContext.resume() settles and startStreaming goes on.  On a context
\* closed meanwhile (audioContext = "none") the promise rejects or resolves,
\* as the browser decides.
ResumeSettled ==
  \E a \in Attempts, resolved \in BOOLEAN :
    /\ att[a].ss = "resume"
    /\ resolved \/ att[a].audioContext = "none"
    /\ LET w0 == World(refs, att)
           w1 == IF att[a].audioContext = "suspended" THEN SetObj(w0, a, "audioContext", "running") ELSE w0
           w2 == IF resolved THEN StartAudioGraph(w1, a) ELSE SetObj(w0, a, "ss", "ended")
       IN /\ refs' = w2.refs
          /\ att' = w2.att
    /\ lastOp' = Op("resume_settled", a, <<>>)
    /\ UNCHANGED <<state, added, stream, apiKey, mounted, rendered, hist>>

\* x || d
Falsy(x) ==
  \/ x.t \in {"undefined", "null"}
  \/ x.t = "string" /\ x.v = ""
  \/ x.t = "number" /\ x.v = 0
  \/ x.t = "boolean" /\ x.v = FALSE
OrElse(x, d) == IF Falsy(x) THEN d ELSE x

\* the AnalysisFrame built from fc.args
MakeFrame(data, now) ==
  [timestamp |-> toISOString(now),
   dominant_emotion |-> OrElse(data.dominant_emotion, Str("Neutral")),
   confidence |-> OrElse(data.confidence, Num(0)),
   micro_expression |-> OrElse(data.micro_expression, Null),
   active_aus |-> OrElse(data.active_aus, Arr(<<>>)),
   incongruence |-> OrElse(data.incongruence, Bool(FALSE)),
   baseline_deviation |-> OrElse(data.baseline_deviation, Num(0)),
   analysis_summary |-> OrElse(data.analysis_summary, Str("Processing..."))]

\* tool-call arguments the remote model may send: every field, or none.
\* Runs of the whole App take the full payload; runs of messages and of
\* payloads vary it.
FullArgs ==
  [dominant_emotion |-> Str("Happy"),
   confidence |-> Num(80),
   micro_expression |-> Str("Smirk"),
   active_aus |-> Arr(<<Str("AU12")>>),
   incongruence |-> Bool(TRUE),
   baseline_deviation |-> Num(40),
   analysis_summary |-> Str("Smiling")]
NoArgs ==
  [dominant_emotion |-> Undefined,
   confidence |-> Undefined,
   micro_expression |-> Undefined,
   active_aus |-> Undefined,
   incongruence |-> Undefined,
   baseline_deviation |-> Undefined,
   analysis_summary |-> Undefined]

\* the function calls of a run of the whole App
FunctionCalls ==
  [name : {"report_analysis", "other_tool"}, args : {FullArgs}, id : {"call"}]

\* a tool response that does not carry the id of its call
ToolResponseWithoutId(a, fc) ==
  [kind |-> "ack", session |-> a, id |-> "", result |-> "ok"]

\* s.sendToolResponse({ functionResponses: [{ id: fc.id, name, response: { result: "ok" } }] })
ToolResponse(a, fc) ==
  [kind |-> "ack", session |-> a, id |-> fc.id, result |-> "ok"]

\* fc.name === 'report_analysis'
IsReportAnalysis(fc) == fc.name = "report_analysis"

\* msg.toolCall.functionCalls.forEach(fc => ...) on the calls left, in order.
\* acc holds the reducer state, the frames dispatched so far and the
\* sessionPromise.then callbacks queued so far; these run, in the order they
\* were queued, when the handler returns.
RECURSIVE ForEachCall(_, _, _)
ForEachCall(calls, a, acc) ==
  IF calls = <<>> THEN acc
  ELSE LET fc == Head(calls)
           now == Clock(Len(acc.added) + 1)
           frame == MakeFrame(fc.args, now)
       IN ForEachCall(Tail(calls), a,
            IF IsReportAnalysis(fc)
              THEN [state |-> Dispatch(acc.state, [type |-> "ADD_FRAME", payload |-> frame], now),
                    added |-> Append(acc.added, frame),
                    acks |-> Append(acc.acks, ToolResponse(a, fc))]
              ELSE acc)

\* the report_analysis calls among the calls of a message
IsReportCall(fc) == fc.name = "report_analysis"
ReportCalls(calls) == SelectSeq(calls, IsReportCall)

\* callbacks.onmessage of attempt a with msg.toolCall.functionCalls = calls
OnMessage(a, calls) ==
  LET r == ForEachCall(calls, a, [state |-> state, added |-> added, acks |-> <<>>]) IN
    /\ state' = r.state
    /\ added' = r.added
    /\ lastOp' = Op("onmessage", a, r.acks)
    /\ hist' = [hist EXCEPT !.calls = @ \o ReportCalls(calls), !.acks = @ \o r.acks]
    /\ UNCHANGED <<stream, apiKey, mounted, rendered, refs, att>>

\* onmessage with a toolCall of one function call
onmessage ==
  \E a \in Attempts, fc \in FunctionCalls :
    /\ att[a].session = "open"
    /\ Len(added) < MaxToolCalls
    /\ OnMessage(a, <<fc>>)

\* onclose: stopStreaming(); dispatch DISCONNECTED
onclose ==
  \E a \in Attempts :
    /\ att[a].session \in {"opening", "open", "errored"}
    /\ LET w == stopStreaming(SetObj(World(refs, att), a, "session", "none")) IN
         /\ refs' = w.refs
         /\ att' = w.att
         /\ state' = IF w.threw THEN state
                      ELSE Dispatch(state, [type |-> "SET_CONNECTION", payload |-> DISCONNECTED], Clock(Len(added)))
         /\ lastOp' = OpOf("onclose", a, <<>>, w)
    /\ UNCHANGED <<added, stream, apiKey, mounted, rendered, hist>>

\* onerror: dispatch ERROR; stopStreaming().  A socket that reported an error
\* does not open or deliver any more; its close follows.
onerror ==
  \E a \in Attempts :
    /\ att[a].session \in {"opening", "open"}
    /\ state' = Dispatch(state, [type |-> "SET_CONNECTION", payload |-> ERROR], Clock(Len(added)))
    /\ LET w == stopStreaming(SetObj(World(refs, att), a, "session", "errored")) IN
         /\ refs' = w.refs
         /\ att' = w.att
         /\ lastOp' = OpOf("onerror", a, <<>>, w)
    /\ UNCHANGED <<added, stream, apiKey, mounted, rendered, hist>>

\* disconnect(), the TERMINATE SESSION button, shown while the render is
\* of the connected state
disconnect ==
  /\ mounted
  /\ rendered.connectionState = CONNECTED
  /\ LET w == stopStreaming(World(refs, att)) IN
       /\ refs' = w.refs
       /\ att' = w.att
       /\ state' = IF w.threw THEN state
                    ELSE Dispatch(state, [type |-> "SET_CONNECTION", payload |-> DISCONNECTED], Clock(Len(added)))
       /\ lastOp' = [op |-> "disconnect", a |-> 0, sent |-> <<>>, threw |-> w.threw,
                      calledIn |-> state.connectionState]
  /\ rendered' = View(state')
  /\ hist' = [hist EXCEPT !.afterDisconnect = TRUE,
                          !.cancelled = @ \cup Interrupted(att)]
  /\ UNCHANGED <<added, stream, apiKey, mounted>>

\* the mic button: dispatch({ type: 'TOGGLE_MIC' })
toggleMic ==
  /\ mounted
  /\ state' = Dispatch(state, [type |-> "TOGGLE_MIC"], Clock(Len(added)))
  /\ rendered' = View(state')
  /\ lastOp' = Op("toggle_mic", 0, <<>>)
  /\ UNCHANGED <<added, stream, apiKey, mounted, refs, att, hist>>

\* the cleanup of useEffect(() => () => stopStreaming(), [])
unmount ==
  /\ mounted
  /\ mounted' = FALSE
  /\ LET w == stopStreaming(World(refs, att)) IN
       /\ refs' = w.refs
       /\ att' = w.att
       /\ lastOp' = OpOf("unmount", 0, <<>>, w)
  /\ hist' = [hist EXCEPT !.cancelled = @ \cup Interrupted(att)]
  /\ UNCHANGED <<state, added, stream, apiKey, rendered>>

\* processor.onaudioprocess of attempt a: its `state` is the render state
\* the closure captured
onaudioprocess ==
  \E a \in Attempts :
    /\ att[a].processor
    /\ att[a].audioContext = "running"
    /\ lastOp' = Op("onaudioprocess", a, IF ~att[a].isMicOn THEN <<>> ELSE <<Msg("audio", a)>>)
    /\ UNCHANGED <<state, added, stream, apiKey, mounted, rendered, refs, att, hist>>

\* a tick that found a tick in flight takes this guard to be open
TickGuardIgnoresProcessing == mounted

\* if (videoRef.current && canvasRef.current && !processingRef.current)
TickGuard == mounted /\ ~refs.processingRef

\* a tick of the frame timer of attempt a.  `ready` is ctx && readyState === 4;
\* `outcome` is what session.sendRealtimeInput does: it sends, it returns a
\* promise that rejects, or it throws.  A throw is caught at once and the
\* guard is released within the tick, as it is when nothing is captured.
tick ==
  \E a \in Attempts, ready \in BOOLEAN, outcome \in {"sent", "rejects", "throws"} :
    /\ att[a].timer
    /\ IF TickGuard
         THEN IF ready /\ outcome # "throws"
                THEN /\ refs' = [refs EXCEPT !.processingRef = TRUE]
                     /\ att' = [att EXCEPT ![a].tick = @ + 1]
                     /\ lastOp' = Op("tick", a, IF outcome = "sent" THEN <<Msg("video", a)>> ELSE <<>>)
                ELSE /\ lastOp' = Op(IF ready THEN "tick_send_threw" ELSE "tick_released", a, <<>>)
                     /\ UNCHANGED <<refs, att>>
         ELSE /\ lastOp' = Op("tick_skipped", a, <<>>)
              /\ UNCHANGED <<refs, att>>
    /\ UNCHANGED <<state, added, stream, apiKey, mounted, rendered, hist>>

\* the guard stays set when the awaited send settles
tickSettledKeepsGuard ==
  \E a \in Attempts :
    /\ att[a].tick > 0
    /\ att' = [att EXCEPT ![a].tick = @ - 1]
    /\ lastOp' = Op("tick_settled", a, <<>>)
    /\ UNCHANGED <<state, added, stream, apiKey, mounted, rendered, refs, hist>>

\* the awaited send of a tick settles: processingRef.current = false
tickSettled ==
  \E a \in Attempts :
    /\ att[a].tick > 0
    /\ refs' = [refs EXCEPT !.processingRef = FALSE]
    /\ att' = [att EXCEPT ![a].tick = @ - 1]
    /\ lastOp' = Op("tick_settled", a, <<>>)
    /\ UNCHANGED <<state, added, stream, apiKey, mounted, rendered, hist>>

Next ==
  \/ Render
  \/ connect
  \/ GetUserMediaResolved
  \/ GetUserMediaRejected
  \/ PlayResolved
  \/ PlayRejected
  \/ SessionRejected
  \/ onopen
  \/ ResumeSettled
  \/ onmessage
  \/ onclose
  \/ onerror
  \/ disconnect
  \/ toggleMic
  \/ unmount
  \/ onaudioprocess
  \/ tick
  \/ tickSettled

Spec == Init /\ [][Next]_vars

(***************************************************************************)
(* Sessions one after another: connect, open, end, connect again.          *)
(***************************************************************************)
reconnect == Connect(MaxReconnects)

NextSessions ==
  \/ Render
  \/ reconnect
  \/ GetUserMediaResolved
  \/ GetUserMediaRejected
  \/ PlayResolved
  \/ PlayRejected
  \/ SessionRejected
  \/ onopen
  \/ ResumeSettled
  \/ onmessage
  \/ onclose
  \/ onerror
  \/ disconnect

SpecSessions == Init /\ [][NextSessions]_vars

(***************************************************************************)
(* Runs of messages on an open session.                                    *)
(***************************************************************************)
\* refs and objects once connect() of attempt 1 has run to the end and
\* startStreaming has started both producers: getUserMedia resolved, the
\* session was requested and opened, the audio context was running
StreamingWorld ==
  LET w0 == World(initialRefs, [a \in Attempts |-> initialAttempt])
      w1 == SetRef(SetObj(w0, 1, "tracks", TRUE), "streamRef", 1)
      w2 == LiveConnect(w1, 1)
      w3 == SetRef(SetObj(SetObj(w2, 1, "session", "open"), 1, "pc", "ended"), "sessionRef", 1)
  IN startStreaming(w3, 1, FALSE)

\* the App with the session of attempt 1 open and the connected state rendered
InitMessages ==
  /\ state = [initialState EXCEPT !.connectionState = CONNECTED]
  /\ added = <<>>
  /\ stream = 1
  /\ lastOp = Op("render", 0, <<>>)
  /\ apiKey = TRUE
  /\ mounted = TRUE
  /\ rendered = View(state)
  /\ refs = StreamingWorld.refs
  /\ att = StreamingWorld.att
  /\ hist = initialHist

\* function calls the remote model may send, with the ids it gives them
CallIds == {"id1", "id2"}
ToolCalls ==
  [name : {"report_analysis", "other_tool"}, args : {FullArgs, NoArgs}, id : CallIds]

\* msg.toolCall.functionCalls of one message
ToolCallLists ==
  UNION {[1..n -> ToolCalls] : n \in 1..MaxCallsPerMessage}

\* onmessage with a toolCall of one or more function calls
onmessageCalls ==
  \E calls \in ToolCallLists :
    /\ att[1].session = "open"
    /\ Len(hist.calls) + Len(ReportCalls(calls)) <= MaxCalls
    /\ OnMessage(1, calls)

\* the properties of fc.args
FrameFields ==
  {"dominant_emotion", "confidence", "micro_expression", "active_aus",
   "incongruence", "baseline_deviation", "analysis_summary"}

\* a value of the declared type of each property that JavaScript takes for
\* false: the empty string, 0, false (an empty array is not one)
FalsyArgs ==
  [dominant_emotion |-> Str(""),
   confidence |-> Num(0),
   micro_expression |-> Str(""),
   active_aus |-> Arr(<<>>),
   incongruence |-> Bool(FALSE),
   baseline_deviation |-> Num(0),
   analysis_summary |-> Str("")]

\* payloads: each property holds a value, is absent, or holds the value of
\* FalsyArgs; at most MaxOddFields properties are not as in FullArgs
PayloadArgs ==
  {args \in [FrameFields -> UNION {{FullArgs[f], Undefined, FalsyArgs[f]} : f \in FrameFields}] :
     /\ \A f \in FrameFields : args[f] \in {FullArgs[f], Undefined, FalsyArgs[f]}
     /\ Cardinality({f \in FrameFields : args[f] # FullArgs[f]}) <= MaxOddFields}

\* onmessage with one report_analysis call of any payload
onmessagePayload ==
  \E args \in PayloadArgs :
    /\ att[1].session = "open"
    /\ Len(added) < MaxToolCalls
    /\ OnMessage(1, <<[name |-> "report_analysis", args |-> args, id |-> "id1"]>>)

NextPayload ==
  \/ onmessagePayload
  \/ onerror
  \/ onclose

SpecPayload == InitMessages /\ [][NextPayload]_vars

NextMessages ==
  \/ onmessageCalls
  \/ onerror
  \/ onclose

SpecMessages == InitMessages /\ [][NextMessages]_vars

(***************************************************************************)
(* The producers of a streaming session.  A send that was awaited settles: *)
(* sendRealtimeInput returns at once and the microtask queue is drained.   *)
(***************************************************************************)
NextTicks ==
  \/ tick
  \/ tickSettled
  \/ onaudioprocess
  \/ toggleMic
  \/ onerror
  \/ onclose
  \/ disconnect
  \/ unmount

SpecTicks == InitMessages /\ [][NextTicks]_vars /\ WF_vars(tickSettled)

(***************************************************************************)
(* C1                                                                      *)
(***************************************************************************)
\* C1: after n ADD_FRAME events from the initial state, interleaved with
\* SET_CONNECTION and TOGGLE_MIC events, frames has length min(50, n) and
\* holds the 50 most recently added frames, most recent first.
C1_FramesMostRecentFirst ==
  LET n == Len(added) IN
    /\ Len(state.frames) = Min(50, n)
    /\ \A i \in 1..Len(state.frames) : state.frames[i] = added[n - i + 1]

\* 51 frames with baseline_deviation 1..51: frames 51..2 are kept, frame 1 is gone
C1_Witness ==
  /\ stream = 1
  /\ Len(added) = 51
  /\ Len(state.frames) = 50
  /\ state.frames[1].baseline_deviation = Num(51)
  /\ state.frames[50].baseline_deviation = Num(2)
  /\ \A i \in 1..50 : state.frames[i].baseline_deviation # Num(1)

(***************************************************************************)
(* C2                                                                      *)
(***************************************************************************)
\* C2: after n ADD_FRAME events from the initial state, timelineData has
\* length min(60, n), is oldest-first, holds the points of the 60 most
\* recently added frames (intensity = baseline_deviation, emotion =
\* dominant_emotion), and its k-th newest point matches the k-th newest
\* history frame for every k up to min(50, n).
C2_TimelineChronological ==
  LET n == Len(added)
      tl == state.timelineData
      m == Len(state.timelineData)
  IN
    /\ m = Min(60, n)
    /\ \A i \in 1..m :
         /\ tl[i].intensity = added[n - m + i].baseline_deviation
         /\ tl[i].emotion = added[n - m + i].dominant_emotion
    /\ \A k \in 1..Min(50, n) :
         /\ tl[m - k + 1].intensity = state.frames[k].baseline_deviation
         /\ tl[m - k + 1].emotion = state.frames[k].dominant_emotion

\* 61 frames added: the first point is evicted, the newest is last
C2_Witness ==
  /\ stream = 1
  /\ Len(added) = 61
  /\ Len(state.timelineData) = 60
  /\ state.timelineData[1].intensity = Num(2)
  /\ state.timelineData[60].intensity = Num(61)

(***************************************************************************)
(* What the lifecycle claims speak about.                                  *)
(***************************************************************************)
\* every ref cell that names a resource is null
AllRefsNull ==
  /\ refs.streamRef = 0
  /\ refs.audioContextRef = 0
  /\ refs.processorRef = 0
  /\ refs.sourceRef = 0
  /\ refs.frameIntervalRef = 0
  /\ refs.sessionRef = 0

\* no ref names a resource that is still held: the five handles are null and
\* the timer frameIntervalRef names, if any, is cleared
NothingHeld ==
  /\ refs.processorRef = 0
  /\ refs.sourceRef = 0
  /\ refs.audioContextRef = 0
  /\ refs.streamRef = 0
  /\ refs.sessionRef = 0
  /\ refs.frameIntervalRef # 0 => ~att[refs.frameIntervalRef].timer

\* the realtime-input messages among those the last handler sent
IsMedia(m) == m.kind \in {"audio", "video"}
MediaSent == SelectSeq(lastOp.sent, IsMedia)

\* sends of frame ticks that have not settled
RECURSIVE PendingTicks(_, _)
PendingTicks(o, n) == IF n = 0 THEN 0 ELSE o[n].tick + PendingTicks(o, n - 1)

\* In the step from the unprimed to the primed state stopStreaming ran on
\* what the refs named: the timer is cleared, the audio nodes disconnected,
\* the context closed, the tracks stopped, and the five handles are null.
TeardownPerformed ==
  /\ refs.frameIntervalRef # 0 => ~att'[refs.frameIntervalRef].timer
  /\ refs.processorRef # 0 => ~att'[refs.processorRef].processor
  /\ refs.sourceRef # 0 => ~att'[refs.sourceRef].source
  /\ refs.audioContextRef # 0 => att'[refs.audioContextRef].audioContext = "none"
  /\ refs.streamRef # 0 => ~att'[refs.streamRef].tracks
  /\ refs'.processorRef = 0
  /\ refs'.sourceRef = 0
  /\ refs'.audioContextRef = 0
  /\ refs'.streamRef = 0
  /\ refs'.sessionRef = 0

(***************************************************************************)
(* C3                                                                      *)
(***************************************************************************)
\* C3: with no API key configured, connect() leaves the connection state at
\* Disconnected and acquires nothing: no getUserMedia request, no session,
\* no ref set, no timer.
C3_NoKeyNoAcquisition ==
  ~apiKey =>
    /\ state.connectionState = DISCONNECTED
    /\ rendered.connectionState = DISCONNECTED
    /\ refs = initialRefs
    /\ \A a \in Attempts : att[a] = initialAttempt

\* connect() ran without a key
C3_Witness ==
  /\ ~apiKey
  /\ lastOp.op = "connect_no_key"
  /\ state.connectionState = DISCONNECTED

(***************************************************************************)
(* C4                                                                      *)
(***************************************************************************)
\* C4: for every audio buffer delivered to onaudioprocess, nothing is sent
\* when state.isMicOn is off at that moment, and exactly one audio message
\* is sent when it is on.
C4_MicFlagGatesAudio ==
  lastOp.op = "onaudioprocess" =>
    lastOp.sent = (IF state.isMicOn THEN <<Msg("audio", lastOp.a)>> ELSE <<>>)

(***************************************************************************)
(* C5                                                                      *)
(***************************************************************************)
\* C5: after disconnect() returns the timer is cleared, the audio graph is
\* disconnected, every track is stopped, the remote session is released and
\* the state is Disconnected; from then until the next connect() no audio
\* or video message is sent and no resource reference is non-null.
C5_DisconnectReleasesAll ==
  /\ lastOp.op = "disconnect" =>
       /\ state.connectionState = DISCONNECTED
       /\ \A a \in Attempts :
            /\ ~att[a].timer
            /\ ~att[a].processor
            /\ ~att[a].source
            /\ ~att[a].tracks
            /\ att[a].session \notin {"opening", "open"}
  /\ hist.afterDisconnect => AllRefsNull /\ MediaSent = <<>>

(***************************************************************************)
(* C6                                                                      *)
(***************************************************************************)
\* C6: disconnect() and stopStreaming are idempotent.  No handler that runs
\* the teardown throws, whatever was acquired; disconnect() leaves the state
\* Disconnected, also when it was Disconnected already; the teardown touches
\* no resource whose ref is null, and nothing at all when nothing is held;
\* and running it twice gives what running it once gives.
C6_TeardownIdempotent ==
  LET w == World(refs, att)
      once == stopStreaming(w)
  IN
    /\ ~lastOp.threw
    /\ lastOp.op = "disconnect" => state.connectionState = DISCONNECTED
    /\ ~once.threw
    /\ stopStreaming(once) = once
    /\ \A a \in Attempts :
         /\ refs.frameIntervalRef # a => once.att[a].timer = att[a].timer
         /\ refs.processorRef # a => once.att[a].processor = att[a].processor
         /\ refs.sourceRef # a => once.att[a].source = att[a].source
         /\ refs.audioContextRef # a => once.att[a].audioContext = att[a].audioContext
         /\ refs.streamRef # a => once.att[a].tracks = att[a].tracks
    /\ NothingHeld => once.att = att /\ once.refs = refs

\* disconnect() was called while the state was Disconnected (the session
\* had closed, the render still showed the connected state), with every
\* resource already released
C6_Witness ==
  /\ lastOp.op = "disconnect"
  /\ lastOp.calledIn = DISCONNECTED
  /\ state.connectionState = DISCONNECTED
  /\ NothingHeld
  /\ ~lastOp.threw

(***************************************************************************)
(* C7                                                                      *)
(***************************************************************************)
\* C7: the completion of a connect() attempt that was in flight when
\* disconnect() or the unmount cleanup ran is discarded: it sets no ref,
\* starts no timer and does not make the state Connected.
C7_StaleCompletionDiscarded ==
  \A a \in hist.cancelled :
    /\ refs.streamRef # a
    /\ refs.sessionRef # a
    /\ refs.audioContextRef # a
    /\ refs.sourceRef # a
    /\ refs.processorRef # a
    /\ refs.frameIntervalRef # a
    /\ ~att[a].timer
    /\ ~(lastOp.op = "onopen" /\ lastOp.a = a /\ state.connectionState = CONNECTED)

(***************************************************************************)
(* C8                                                                      *)
(***************************************************************************)
\* C8: a tick that fires while the send of an earlier tick is pending is
\* skipped: it sends nothing and leaves nothing pending, so at most one
\* video send is in flight at any time.
C8_OverlappingTickSkipped ==
  [][/\ PendingTicks(att', Len(att')) <= 1
     /\ (lastOp'.op \in {"tick", "tick_released", "tick_send_threw", "tick_skipped"}
         /\ PendingTicks(att, Len(att)) > 0)
        => /\ lastOp'.op = "tick_skipped"
           /\ lastOp'.sent = <<>>
           /\ att' = att
           /\ refs' = refs]_vars

\* a tick was skipped because a send was pending
C8_Witness ==
  /\ lastOp.op = "tick_skipped"
  /\ mounted
  /\ att[lastOp.a].tick = 1
  /\ refs.processingRef

(***************************************************************************)
(* C9                                                                      *)
(***************************************************************************)
\* C9: when a session reports an error, in any state, the teardown is
\* performed (timer stopped, audio graph and tracks released, session handle
\* cleared) and the connection state becomes Error.
C9_ErrorTearsDown ==
  [][lastOp'.op = "onerror" => TeardownPerformed /\ state'.connectionState = ERROR]_vars

\* the session of a streaming attempt reported an error: its timer had been
\* started and is now cleared
C9_Witness ==
  /\ lastOp.op = "onerror"
  /\ state.connectionState = ERROR
  /\ refs.frameIntervalRef = lastOp.a
  /\ ~att[lastOp.a].timer
  /\ ~att[lastOp.a].tracks

(***************************************************************************)
(* C10                                                                     *)
(***************************************************************************)
\* C10: when a session closes, the teardown is performed and the connection
\* state becomes Disconnected.
C10_CloseTearsDown ==
  [][lastOp'.op = "onclose" => TeardownPerformed /\ state'.connectionState = DISCONNECTED]_vars

\* the session of a streaming attempt closed while it was streaming audio
C10_Witness ==
  /\ lastOp.op = "onclose"
  /\ state.connectionState = DISCONNECTED
  /\ refs.frameIntervalRef = lastOp.a
  /\ att[lastOp.a].audioContext = "none"
  /\ att[lastOp.a].ss = "ended"
  /\ ~att[lastOp.a].timer
  /\ ~att[lastOp.a].tracks

(***************************************************************************)
(* C11                                                                     *)
(***************************************************************************)
\* C11: when getUserMedia rejects during connect(), the connection state
\* becomes Error and the teardown is performed; the attempt has requested no
\* session and started no producer, and it never does: an attempt that ended
\* before its session was requested does not change any more.
C11_MediaFailureIsError ==
  [][\A a \in Attempts :
       /\ (lastOp'.op = "getUserMedia_rejected" /\ lastOp'.a = a) =>
            /\ state'.connectionState = ERROR
            /\ TeardownPerformed
            /\ ~lastOp'.threw
            /\ att'[a] = [initialAttempt EXCEPT !.pc = "ended", !.isMicOn = att[a].isMicOn]
       /\ (att[a].pc = "ended" /\ att[a].session = "none" /\ att[a].ss = "idle") =>
            att'[a] = att[a]]_vars

\* getUserMedia rejected: the state is Error, and the attempt holds no
\* session, no timer and no audio node
C11_Witness ==
  /\ lastOp.op = "getUserMedia_rejected"
  /\ state.connectionState = ERROR
  /\ att[lastOp.a].pc = "ended"
  /\ att[lastOp.a].session = "none"
  /\ ~att[lastOp.a].timer
  /\ ~att[lastOp.a].processor
  /\ refs.streamRef = 0

(***************************************************************************)
(* C12                                                                     *)
(***************************************************************************)
\* C12: every report_analysis call received produces exactly one ADD_FRAME
\* and exactly one tool response with the id of the call and the result
\* "ok".  The i-th frame dispatched is the frame of the i-th call received,
\* the i-th response sent answers the i-th call, and the history holds the
\* frames newest first.
C12_OneFrameOneAckInOrder ==
  LET n == Len(hist.calls) IN
    /\ Len(added) = n
    /\ Len(hist.acks) = n
    /\ Len(state.frames) = n
    /\ \A i \in 1..n :
         /\ added[i] = MakeFrame(hist.calls[i].args, Clock(i))
         /\ state.frames[n - i + 1] = added[i]
         /\ hist.acks[i].kind = "ack"
         /\ hist.acks[i].id = hist.calls[i].id
         /\ hist.acks[i].result = "ok"

\* three calls were received, the last two in one message, with different
\* ids and different arguments
C12_Witness ==
  /\ lastOp.op = "onmessage"
  /\ Len(lastOp.sent) = 2
  /\ Len(hist.calls) = 3
  /\ hist.calls[2].id = "id2"
  /\ hist.calls[3].id = "id1"
  /\ hist.calls[2].args = FullArgs
  /\ hist.calls[3].args = NoArgs
  /\ hist.acks[3].id = "id1"
  /\ state.frames[1].dominant_emotion = Str("Neutral")
  /\ state.frames[2].dominant_emotion = Str("Happy")

(***************************************************************************)
(* C13                                                                     *)
(***************************************************************************)
\* C13: when the session of a connect attempt opens, the connection state
\* becomes Connected, startStreaming is run and exactly one kickoff message
\* is sent on that session; where startStreaming has run to its end, the
\* frame timer is active and the audio processor is attached to a running
\* context.
C13_OpenStartsProducers ==
  lastOp.op = "onopen" =>
    /\ state.connectionState = CONNECTED
    /\ lastOp.sent = <<Msg("kickoff", lastOp.a)>>
    /\ att[lastOp.a].ss # "idle"
    /\ att[lastOp.a].ss = "ended" =>
         /\ att[lastOp.a].timer
         /\ att[lastOp.a].processor
         /\ att[lastOp.a].source
         /\ att[lastOp.a].audioContext = "running"

(***************************************************************************)
(* C14                                                                     *)
(***************************************************************************)
\* the documented default of each optional field
DocumentedDefaults ==
  [dominant_emotion |-> Str("Neutral"),
   confidence |-> Num(0),
   micro_expression |-> Null,
   active_aus |-> Arr(<<>>),
   incongruence |-> Bool(FALSE),
   baseline_deviation |-> Num(0),
   analysis_summary |-> Str("Processing...")]

\* C14: the frame of a report_analysis payload holds, for every field the
\* payload lacks, the documented default, and for every field the payload
\* holds, the value supplied.
C14_DefaultsForMissingFields ==
  \A i \in 1..Len(hist.calls) :
    \A f \in FrameFields :
      added[i][f] = IF hist.calls[i].args[f] = Undefined
                      THEN DocumentedDefaults[f]
                      ELSE hist.calls[i].args[f]

(***************************************************************************)
(* C15                                                                     *)
(***************************************************************************)
\* C15: TOGGLE_MIC negates isMicOn and leaves connectionState, frames,
\* currentFrame and timelineData as they were; applied twice it gives back
\* the state it started from.
C15_ToggleMicFlipsOnlyMic ==
  [][lastOp'.op = "TOGGLE_MIC" =>
       /\ state'.isMicOn = ~state.isMicOn
       /\ state'.connectionState = state.connectionState
       /\ state'.frames = state.frames
       /\ state'.currentFrame = state.currentFrame
       /\ state'.timelineData = state.timelineData
       /\ appReducer(state', [type |-> "TOGGLE_MIC"], Clock(Len(added))) = state]_vars

\* the mic was switched back on in a connected state with a full history
C15_Witness ==
  /\ lastOp.op = "TOGGLE_MIC"
  /\ state.isMicOn
  /\ state.connectionState = CONNECTED
  /\ Len(state.frames) = HistoryCap
  /\ state.currentFrame = added[Len(added)]

(***************************************************************************)
(* C16                                                                     *)
(***************************************************************************)
\* C16: RESET, applied to any state the events can build, gives exactly the
\* initial state: Disconnected, no frames, no current frame, an empty
\* timeline, the mic on.
C16_ResetRestoresInitial ==
  [][lastOp'.op = "RESET" =>
       state' = [connectionState |-> DISCONNECTED,
                 frames |-> <<>>,
                 currentFrame |-> Null,
                 timelineData |-> <<>>,
                 isMicOn |-> TRUE]]_vars

\* RESET was applied to a connected state with a full history and the mic off
C16_Witness ==
  /\ lastOp.op = "RESET"
  /\ lastOp.from.frames = HistoryCap
  /\ lastOp.from.connectionState = CONNECTED
  /\ ~lastOp.from.isMicOn
  /\ state = initialState

(***************************************************************************)
(* C19                                                                     *)
(***************************************************************************)
\* currentFrame is null when no frame was added since the initial state (or
\* the last RESET, which the App never dispatches), and is frames[0], the
\* frame added last, otherwise
CurrentFrameIsNewest ==
  IF Len(added) = 0
    THEN state.currentFrame = Null /\ state.frames = <<>>
    ELSE /\ state.currentFrame # Null
         /\ state.currentFrame = state.frames[1]
         /\ state.currentFrame = added[Len(added)]

\* C19: in every reachable state currentFrame is null exactly when no frame
\* has been added, and otherwise equals frames[0], the most recently added
\* frame; SET_CONNECTION and TOGGLE_MIC change none of frames, timelineData
\* and currentFrame.
C19_CurrentFrameAndHistoryKept ==
  [][/\ CurrentFrameIsNewest
     /\ CurrentFrameIsNewest'
     /\ lastOp'.op \in {"SET_CONNECTION", "TOGGLE_MIC"} =>
          /\ state'.frames = state.frames
          /\ state'.timelineData = state.timelineData
          /\ state'.currentFrame = state.currentFrame]_vars

\* a history of 51 frames went through disconnect, error and reconnect: the
\* state is Connected again and the current frame is the 51st
C19_Witness ==
  /\ lastOp.op = "SET_CONNECTION"
  /\ state.connectionState = CONNECTED
  /\ Len(added) = 51
  /\ Len(state.frames) = HistoryCap
  /\ state.currentFrame = added[51]
  /\ state.currentFrame = state.frames[1]
  /\ Len(state.timelineData) = 51

(***************************************************************************)
(* C17                                                                     *)
(***************************************************************************)
\* a timer, audio node, audio context, media stream or session of attempt a
\* is live
Live(o, a) ==
  \/ o[a].timer
  \/ o[a].processor
  \/ o[a].source
  \/ o[a].audioContext # "none"
  \/ o[a].tracks
  \/ o[a].session \in {"opening", "open"}

\* C17: the connection state moves along the lifecycle only.  Connecting is
\* entered by connect() alone, from Disconnected or Error, with no resource
\* of any attempt live; Connected is entered from Connecting alone; Error
\* and Disconnected are entered with the teardown performed.
C17_LifecycleEdges ==
  [][/\ (state'.connectionState = CONNECTING /\ state.connectionState # CONNECTING) =>
          /\ lastOp'.op = "connect"
          /\ state.connectionState \in {DISCONNECTED, ERROR}
          /\ \A a \in Attempts : ~Live(att, a)
     /\ (state'.connectionState = CONNECTED /\ state.connectionState # CONNECTED) =>
          state.connectionState = CONNECTING
     /\ (state'.connectionState \in {DISCONNECTED, ERROR}
         /\ state'.connectionState # state.connectionState) =>
          TeardownPerformed]_vars

(***************************************************************************)
(* C18                                                                     *)
(***************************************************************************)
\* C18: whenever a frame timer is active or an audio processor is attached,
\* the connection state is Connected, and a handler sends an audio or video
\* message only while the state is Connected.
C18_ProducersOnlyWhileConnected ==
  /\ \A a \in Attempts :
       (att[a].timer \/ att[a].processor) => state.connectionState = CONNECTED
  /\ MediaSent # <<>> => state.connectionState = CONNECTED

(***************************************************************************)
(* C20                                                                     *)
(***************************************************************************)
\* a tick step changed nothing but the guard and the count of pending sends
TickKeepsResources ==
  /\ state' = state
  /\ rendered' = rendered
  /\ mounted' = mounted
  /\ refs' = [refs EXCEPT !.processingRef = refs'.processingRef]
  /\ \A a \in Attempts : att'[a] = [att[a] EXCEPT !.tick = att'[a].tick]

\* C20: a failed frame send is not fatal.  A tick, whether its send goes
\* out, rejects or throws, or nothing is captured, leaves the connection
\* state and every resource as they were; the guard is held exactly while an
\* awaited send is pending, so a tick whose send threw or that captured
\* nothing has released it when it returns, and the next tick finds it free;
\* and a guard that is held is eventually released.
C20_FailedSendNotFatal ==
  /\ [][lastOp'.op \in {"tick", "tick_released", "tick_send_threw", "tick_skipped", "tick_settled"}
          => TickKeepsResources]_vars
  /\ [](refs.processingRef <=> PendingTicks(att, Len(att)) > 0)
  /\ [][(lastOp'.op \in {"tick_released", "tick_send_threw", "tick_settled"}) => ~refs'.processingRef]_vars
  /\ (refs.processingRef ~> ~refs.processingRef)

\* a send threw in a connected, mounted App: the guard is free, the timer
\* is active and the session is open
C20_Witness ==
  /\ lastOp.op = "tick_send_threw"
  /\ mounted
  /\ state.connectionState = CONNECTED
  /\ ~refs.processingRef
  /\ att[lastOp.a].timer
  /\ att[lastOp.a].session = "open"
  /\ refs.sessionRef = lastOp.a

(***************************************************************************)
(* C21                                                                     *)
(***************************************************************************)
\* the teardown has run since the session of attempt a was requested: its
\* error was handled, or it is open and sessionRef no longer names it, or
\* it is opening and the tracks of its stream are stopped
TornDown(a) ==
  \/ att[a].session = "errored"
  \/ att[a].session = "open" /\ refs.sessionRef # a
  \/ att[a].session = "opening" /\ ~att[a].tracks

\* C21: a callback of a session that was torn down (a late onopen,
\* onmessage, onclose or onerror, or the onclose that follows an onerror)
\* leaves the connection state and the frames as they were and touches no
\* resource of a later connect attempt.
C21_LateCallbacksIgnored ==
  [][\A a \in Attempts :
       (/\ lastOp'.op \in {"onopen", "onmessage", "onclose", "onerror"}
        /\ lastOp'.a = a
        /\ TornDown(a)) =>
         /\ state'.connectionState = state.connectionState
         /\ state'.frames = state.frames
         /\ \A b \in Attempts : b > a => att'[b] = att[b]]_vars

(***************************************************************************)
(* C22                                                                     *)
(***************************************************************************)
\* the attempts whose frame timer is active
ActiveTimers(o) == {a \in Attempts : o[a].timer}

\* C22: at most one frame timer is active at any time; a step that runs the
\* teardown leaves no timer active; and frameIntervalRef is not overwritten
\* while the timer it names is active.
C22_SingleTimer ==
  [][/\ Cardinality(ActiveTimers(att')) <= 1
     /\ lastOp'.op \in {"disconnect", "onclose", "onerror", "unmount", "getUserMedia_rejected",
                        "play_rejected", "session_rejected"} =>
          ActiveTimers(att') = {}
     /\ (refs.frameIntervalRef # 0 /\ att[refs.frameIntervalRef].timer) =>
          refs'.frameIntervalRef = refs.frameIntervalRef]_vars

====
